---- MODULE Spec2Model ----
(***************************************************************************)
(* A model of zo-rest-service: the REST gateway in front of the 01 (zo)    *)
(* perpetual-futures program.  The model covers the shared service state   *)
(* (src/src/state.rs), the seven request handlers and the unit conversions *)
(* (src/src/api.rs).                                                       *)
(*                                                                         *)
(* Numbers wider than TLC's integers (u64, u128, the I80F48 bit pattern,   *)
(* the 53-bit significand of an f64) are little-endian sequences of bytes, *)
(* so that u64 arithmetic wraps at 2^64 and f64 arithmetic rounds to 53    *)
(* bits exactly as the compiled code does.                                 *)
(***************************************************************************)
EXTENDS Integers, Sequences, FiniteSets, TLC

VARIABLES
    zo_state,   \* State.zo_state: the snapshot loaded once in main()
    ledger,     \* the remote ledger: the control field of the margin account
    pc,         \* where the request in flight stands (the await it is at)
    handler,    \* the handler serving the request in flight
    s,          \* the {symbol} path segment
    q,          \* the query string / JSON body as the caller sent it
    loc,        \* the handler's local variables
    sent,       \* the transactions this request has submitted, in order
    resp,       \* the outcome of the request
    call        \* a direct call of a library function: its arguments and result

vars == <<zo_state, ledger, pc, handler, s, q, loc, sent, resp, call>>

-----------------------------------------------------------------------------
(* Unsigned integers of any width: little-endian bytes, no high zero byte.  *)

Base == 2 ^ 8

Min(a, b) == IF a <= b THEN a ELSE b

RECURSIVE Pow(_, _)
Pow(b, e) == IF e = 0 THEN 1 ELSE b * Pow(b, e - 1)

RECURSIVE BNorm(_)
BNorm(x) ==
    IF x = <<>> THEN <<>>
    ELSE IF x[Len(x)] = 0 THEN BNorm(SubSeq(x, 1, Len(x) - 1))
    ELSE x

RECURSIVE BFromInt(_)
BFromInt(n) == IF n = 0 THEN <<>> ELSE <<n % Base>> \o BFromInt(n \div Base)

\* Only for values below 2^31.
RECURSIVE BToInt(_)
BToInt(x) == IF x = <<>> THEN 0 ELSE x[1] + Base * BToInt(Tail(x))

Limb(x, i) == IF i <= Len(x) THEN x[i] ELSE 0

RECURSIVE BAddFrom(_, _, _, _)
BAddFrom(x, y, i, c) ==
    IF i > Len(x) /\ i > Len(y)
    THEN (IF c = 0 THEN <<>> ELSE <<c>>)
    ELSE LET t == Limb(x, i) + Limb(y, i) + c
         IN  <<t % Base>> \o BAddFrom(x, y, i + 1, t \div Base)

BAdd(x, y) == BAddFrom(x, y, 1, 0)

\* x * k for a machine-sized k (k < 2^22).
RECURSIVE BMulSmallFrom(_, _, _, _)
BMulSmallFrom(x, k, i, c) ==
    IF i > Len(x)
    THEN BFromInt(c)
    ELSE LET t == x[i] * k + c
         IN  <<t % Base>> \o BMulSmallFrom(x, k, i + 1, t \div Base)

BMulSmall(x, k) == BNorm(BMulSmallFrom(x, k, 1, 0))

\* x divided by a machine-sized d (0 < d < 2^22): quotient and remainder.
RECURSIVE BDivSmallFrom(_, _, _, _)
BDivSmallFrom(x, d, i, r) ==
    IF i = 0
    THEN [quo |-> <<>>, rem |-> r]
    ELSE LET cur  == r * Base + x[i]
             rest == BDivSmallFrom(x, d, i - 1, cur % d)
         IN  [quo |-> rest.quo \o <<cur \div d>>, rem |-> rest.rem]

BDivSmall(x, d) ==
    LET r == BDivSmallFrom(x, d, Len(x), 0)
    IN  [quo |-> BNorm(r.quo), rem |-> r.rem]

\* x divided by 10^d, rounding down
RECURSIVE BDivPow10(_, _)
BDivPow10(x, d) == IF d = 0 THEN x ELSE BDivPow10(BDivSmall(x, 10).quo, d - 1)

BShlLimbs(x, k) == IF x = <<>> THEN <<>> ELSE [i \in 1..k |-> 0] \o x
BShrLimbs(x, k) == IF k >= Len(x) THEN <<>> ELSE SubSeq(x, k + 1, Len(x))

BShl(x, k) == BShlLimbs(BMulSmall(x, Pow(2, k % 8)), k \div 8)
BShr(x, k) == BDivSmall(BShrLimbs(x, k \div 8), Pow(2, k % 8)).quo

\* x mod 2^k
BModPow2(x, k) ==
    LET n == k \div 8
        b == k % 8
    IN  IF Len(x) <= n THEN x
        ELSE BNorm(SubSeq(x, 1, n) \o <<x[n + 1] % Pow(2, b)>>)

RECURSIVE BMulFrom(_, _, _)
BMulFrom(x, y, j) ==
    IF j > Len(y) THEN <<>>
    ELSE BAdd(BShlLimbs(BMulSmall(x, y[j]), j - 1), BMulFrom(x, y, j + 1))

BMul(x, y) == BMulFrom(x, y, 1)

IntBitLen(v) == CHOOSE n \in 0..8 : Pow(2, n) > v /\ (n = 0 \/ Pow(2, n - 1) <= v)
BitLen(x) == IF x = <<>> THEN 0 ELSE 8 * (Len(x) - 1) + IntBitLen(x[Len(x)])
BIsOdd(x) == x # <<>> /\ x[1] % 2 = 1

\* The number of low zero bits of x # 0.
RECURSIVE ZeroLimbs(_)
ZeroLimbs(x) == IF x[1] # 0 THEN 0 ELSE 1 + ZeroLimbs(Tail(x))
TrailingZeros(x) ==
    LET z == ZeroLimbs(x)
        t == CHOOSE t \in 0..7 : x[z + 1] % Pow(2, t + 1) = Pow(2, t)
    IN  8 * z + t

-----------------------------------------------------------------------------
(* u64: the machine integer of the instruction fields.                      *)

U64Bits == 64
U64Fits(x) == BitLen(x) <= U64Bits
U64Wrap(x) == BModPow2(x, U64Bits)

-----------------------------------------------------------------------------
(* f64: IEEE-754 binary64, finite values.  [neg, m, e] is (-1)^neg * m *    *)
(* 2^e with m odd and below 2^53, or m = 0 and e = 0.  Every operation is   *)
(* the exact result rounded to nearest, ties to even.  The exponent range   *)
(* (subnormals, infinities) is never met by the values of this model.       *)

F64MantBits == 53

F64Zero == [neg |-> FALSE, m |-> <<>>, e |-> 0]

F64Canon(neg, m, e) ==
    IF m = <<>> THEN F64Zero
    ELSE LET t == TrailingZeros(m)
         IN  [neg |-> neg, m |-> BShr(m, t), e |-> e + t]

\* (-1)^neg * m * 2^e rounded to 53 significant bits; sticky says that the
\* exact value lies strictly above m * 2^e (and below (m + 1) * 2^e).
F64Round(neg, m, e, sticky) ==
    LET len == BitLen(m)
    IN  IF len <= F64MantBits
        THEN F64Canon(neg, m, e)
        ELSE LET k     == len - F64MantBits
                 t     == BShr(m, k - 1)
                 keep  == BShr(t, 1)
                 half  == BIsOdd(t)
                 below == sticky \/ BModPow2(m, k - 1) # <<>>
                 up    == half /\ (below \/ BIsOdd(keep))
             IN  F64Canon(neg, IF up THEN BAdd(keep, <<1>>) ELSE keep, e + k)

\* n as f64, for an integer n
F64FromInt(n) ==
    F64Round(n < 0, BFromInt(IF n < 0 THEN -n ELSE n), 0, FALSE)

F64Abs(x) == [x EXCEPT !.neg = FALSE]

\* x / y for y > 0 whose significand is machine-sized (y is a power of ten)
F64Div(x, y) ==
    IF x.m = <<>> THEN F64Zero
    ELSE LET d   == BToInt(y.m)
             sh  == F64MantBits + 3 + BitLen(y.m)
             dv  == BDivSmall(BShl(x.m, sh), d)
         IN  F64Round(x.neg # y.neg, dv.quo, x.e - y.e - sh, dv.rem # 0)

\* x + y for x and y of one sign (or either zero)
F64Add(x, y) ==
    IF x.m = <<>> THEN y
    ELSE IF y.m = <<>> THEN x
    ELSE LET e0 == Min(x.e, y.e)
         IN  F64Round(x.neg,
                      BAdd(BShl(x.m, x.e - e0), BShl(y.m, y.e - e0)),
                      e0, FALSE)

F64Mul(x, y) == F64Round(x.neg # y.neg, BMul(x.m, y.m), x.e + y.e, FALSE)

\* x as u64: the integer part, saturating at 0 and at u64::MAX
F64ToU64(x) ==
    LET i == IF x.e >= 0 THEN BShl(x.m, x.e) ELSE BShr(x.m, -x.e)
    IN  IF x.neg THEN <<>>
        ELSE IF U64Fits(i) THEN i
        ELSE [k \in 1..(U64Bits \div 8) |-> Base - 1]

\* x.rem_euclid(1.) for x >= 0: the fractional part, exact
F64RemEuclid1(x) ==
    IF x.e >= 0 THEN F64Zero
    ELSE F64Canon(FALSE, BModPow2(x.m, -x.e), x.e)

-----------------------------------------------------------------------------
(* src/src/api.rs: the unit conversions                                     *)

\* Rust's / and % on i128 truncate toward zero.
TruncDiv(n, p) == IF n >= 0 THEN n \div p ELSE -((-n) \div p)
TruncRem(n, p) == n - p * TruncDiv(n, p)

div_to_float(n, p) ==
    LET pp == Pow(10, p)
        qq == TruncDiv(n, pp)
        rr == TruncRem(n, pp)
    IN  F64Add(F64FromInt(qq), F64Div(F64FromInt(rr), F64FromInt(pp)))

\* The u64 result, and whether a u64 operation overflowed on the way.
\* 10f64.powi(decimals) is exact for the digit counts of this model.
big_to_small(n, decimals) ==
    LET a    == F64ToU64(n)
        b    == F64RemEuclid1(n)
        hi   == BMul(a, BFromInt(Pow(10, decimals)))
        lo   == F64ToU64(F64Mul(b, F64FromInt(Pow(10, decimals))))
        sum  == BAdd(U64Wrap(hi), lo)
    IN  [value    |-> U64Wrap(sum),
         overflow |-> ~U64Fits(hi) \/ ~U64Fits(sum)]

-----------------------------------------------------------------------------
(* I80F48 (crate fixed): a signed 128-bit integer read with 48 fractional   *)
(* bits.  [neg, raw] is (-1)^neg * raw / 2^48; zero has neg = FALSE.        *)

I80F48FracBits == 48

I80F48Make(neg, raw) == [neg |-> neg /\ raw # <<>>, raw |-> raw]

\* I80F48::from_num(n) for an integer n
I80F48FromInt(n) ==
    I80F48Make(n < 0, BShl(BFromInt(IF n < 0 THEN -n ELSE n), I80F48FracBits))

\* num / 2^bits as an I80F48, for bits <= 48
I80F48Frac(num, bits) ==
    I80F48Make(num < 0, BShl(BFromInt(IF num < 0 THEN -num ELSE num),
                             I80F48FracBits - bits))

I80F48Zero == I80F48FromInt(0)

\* a >= I80F48::ZERO
I80F48NonNegative(a) == ~a.neg

\* a * b: the 256-bit product shifted right by 48 bits, rounding down
I80F48Mul(a, b) ==
    LET p    == BMul(a.raw, b.raw)
        neg  == a.neg # b.neg
        down == BShr(p, I80F48FracBits)
        frac == BModPow2(p, I80F48FracBits)
    IN  I80F48Make(neg, IF neg /\ frac # <<>> THEN BAdd(down, <<1>>) ELSE down)

\* a / I80F48::from_num(10^decimals): (a << 48) / (10^decimals << 48),
\* truncated toward zero
I80F48DivPow10(a, decimals) == I80F48Make(a.neg, BDivPow10(a.raw, decimals))

\* a.to_num::<f64>()
I80F48ToF64(a) == F64Round(a.neg, a.raw, -I80F48FracBits, FALSE)

small_to_big(n, decimals) == I80F48ToF64(I80F48DivPow10(n, decimals))

-----------------------------------------------------------------------------
(* Results and options.  Sequence indices start at 1 where Rust's start at  *)
(* 0.                                                                       *)

Ok(v)  == [ok |-> TRUE,  val |-> v,    err |-> <<"", "">>]
Err(e) == [ok |-> FALSE, val |-> <<>>, err |-> e]

None    == <<>>
Some(v) == <<v>>

\* Iterator::position: the index of the first element equal to x, 0 if none
IterPosition(seq, x) ==
    IF \E i \in DOMAIN seq : seq[i] = x
    THEN CHOOSE i \in DOMAIN seq : seq[i] = x /\ \A j \in 1..(i - 1) : seq[j] # x
    ELSE 0

\* collect::<HashMap<_, _>>() of a sequence of <<key, value>> pairs: a later
\* pair replaces an earlier one with the same key
RECURSIVE CollectFrom(_, _, _)
CollectFrom(pairs, i, m) ==
    IF i > Len(pairs) THEN m
    ELSE CollectFrom(pairs, i + 1,
            [k \in DOMAIN m \cup {pairs[i][1]} |->
                IF k = pairs[i][1] THEN pairs[i][2] ELSE m[k]])

Collect(pairs) == CollectFrom(pairs, 1, [k \in {} |-> 0])

-----------------------------------------------------------------------------
(* Addresses (Pubkey) and the data of zo_abi                                *)

Pk(kind, owner, n) == <<kind, owner, n>>

PubkeyDefault  == Pk("default", "", 0)          \* Pubkey::default(), all zero
ZO_STATE_ID    == Pk("zo_state", "", 0)
ZO_DEX_PID     == Pk("zo_dex_program", "", 0)
TokenProgramId == Pk("token_program", "", 0)
RentId         == Pk("sysvar_rent", "", 0)
CacheKey       == Pk("cache", "", 0)
Authority      == Pk("payer", "", 0)            \* State::authority()
ZoStateSigner  == Pk("state_signer", "", 0)     \* State.zo_state_signer
ZoMarginKey    == Pk("margin", "payer", 0)      \* State.zo_margin_key

Controls == {Pk("control", "", 1), Pk("control", "", 2)}

\* The open-orders account of market slot i under control account c
OpenOrdersKey(c, i) == Pk("open_orders", "", 10 * c[3] + i)

\* Symbol: 0 is the nil symbol (all bytes zero); the next symbols name
\* markets, those after CollateralBase name collaterals.
NilSymbol == 0
MarketNames == <<"BTC-PERP", "ETH-PERP", "SOL-PERP", "AVAX-PERP", "LUNA-PERP">>
OracleNames == <<"USDC", "BTC", "SOL", "ETH", "UST">>
AssetDecimals      == <<6, 9, 8, 6, 6>>
CollateralDecimals == <<6, 8, 9, 6, 6>>
CollateralBase == Len(MarketNames)

\* String::from(Symbol): the bytes up to the first zero byte
SymbolToString(sym) ==
    IF sym = NilSymbol THEN ""
    ELSE IF sym <= CollateralBase THEN MarketNames[sym]
    ELSE OracleNames[sym - CollateralBase]

\* Symbol::is_nil
is_nil(sym) == sym = NilSymbol

PerpMarketInfo(sym) ==
    IF sym = NilSymbol
    THEN [symbol |-> NilSymbol, dex_market |-> PubkeyDefault, asset_decimals |-> 0]
    ELSE [symbol |-> sym, dex_market |-> Pk("dex_market", "", sym),
          asset_decimals |-> AssetDecimals[sym]]

CollateralInfo(sym) ==
    IF sym = NilSymbol
    THEN [oracle_symbol |-> NilSymbol, mint |-> PubkeyDefault, decimals |-> 0]
    ELSE [oracle_symbol |-> sym, mint |-> Pk("mint", "", sym),
          decimals |-> CollateralDecimals[sym - CollateralBase]]

VaultOf(sym) == IF sym = NilSymbol THEN PubkeyDefault ELSE Pk("vault", "", sym)

\* The number of slots of the snapshot's two lists (MAX_MARKETS and
\* MAX_COLLATERALS of zo_abi, scaled down)
MaxSlots == 3

\* The length of the prefix of l before its first nil entry
RECURSIVE ActiveLen(_)
ActiveLen(l) ==
    IF l = <<>> \/ is_nil(l[1]) THEN 0 ELSE 1 + ActiveLen(Tail(l))

\* The symbol lists a snapshot can hold: the symbols of the active prefix
\* are pairwise distinct; what follows the first nil entry is not
\* constrained.  Symbols are numbered in the order they first occur.
SymbolLists ==
    {l \in [1..MaxSlots -> 0..MaxSlots] :
        /\ \A i, j \in 1..ActiveLen(l) : i # j => l[i] # l[j]
        /\ \A i \in 1..MaxSlots :
              l[i] # NilSymbol =>
                 \A k \in 1..(l[i] - 1) : \E j \in 1..(i - 1) : l[j] = k}

\* The zo::State snapshot whose two lists have the shape l.  No handler
\* reads both lists, so the two vary together.
Snapshot(l) ==
    [perp_markets |-> [i \in 1..MaxSlots |-> PerpMarketInfo(l[i])],
     collaterals  |-> [i \in 1..MaxSlots |->
                          CollateralInfo(IF l[i] = NilSymbol THEN NilSymbol
                                         ELSE l[i] + CollateralBase)],
     vaults       |-> [i \in 1..MaxSlots |->
                          VaultOf(IF l[i] = NilSymbol THEN NilSymbol
                                  ELSE l[i] + CollateralBase)],
     cache        |-> CacheKey]

-----------------------------------------------------------------------------
(* src/src/state.rs                                                         *)

market_symbol_index(st, str) ==
    LET i == IterPosition([k \in DOMAIN st.perp_markets |->
                              SymbolToString(st.perp_markets[k].symbol)], str)
    IN  IF i = 0 THEN Err(<<"MarketSymbolNotFound", str>>) ELSE Ok(i)

collateral_symbol_index(st, str) ==
    LET i == IterPosition([k \in DOMAIN st.collaterals |->
                              SymbolToString(st.collaterals[k].oracle_symbol)], str)
    IN  IF i = 0 THEN Err(<<"CollateralSymbolNotFound", str>>) ELSE Ok(i)

market(st, str) ==
    LET r == market_symbol_index(st, str)
    IN  IF r.ok THEN Ok(st.perp_markets[r.val]) ELSE r

collateral(st, str) ==
    LET r == collateral_symbol_index(st, str)
    IN  IF r.ok THEN Ok(st.collaterals[r.val]) ELSE r

vault(st, str) ==
    LET r == collateral_symbol_index(st, str)
    IN  IF r.ok THEN Ok(st.vaults[r.val]) ELSE r

\* take_while(|m| !m.symbol.is_nil())
zo_markets(st) ==
    SubSeq(st.perp_markets, 1,
           ActiveLen([i \in DOMAIN st.perp_markets |-> st.perp_markets[i].symbol]))

zo_collaterals(st) ==
    SubSeq(st.collaterals, 1,
           ActiveLen([i \in DOMAIN st.collaterals |-> st.collaterals[i].oracle_symbol]))

\* The find_map of State::oo over open_orders_agg zipped with zo_markets()
oo_find(st, control, str) ==
    LET mkts == zo_markets(st)
        n    == Min(Len(control.open_orders_agg), Len(mkts))
        hit  == {i \in 1..n : /\ str = SymbolToString(mkts[i].symbol)
                              /\ control.open_orders_agg[i].key # PubkeyDefault}
    IN  IF hit = {} THEN Err(<<"OpenOrdersNotFound", str>>)
        ELSE Ok(control.open_orders_agg[CHOOSE i \in hit : \A j \in hit : i <= j].key)

-----------------------------------------------------------------------------
(* What the ledger can hold.  An account read returns the account's content *)
(* at the time of the read; apart from the margin account's control field   *)
(* (the variable ledger) the content is drawn at the read.                  *)

\* margin.collateral: one balance per collateral slot, in native units
Balances == {I80F48FromInt(-500000), I80F48Zero, I80F48FromInt(1000000)}

\* cache.borrow_cache: one pair of multipliers per collateral slot
CacheFlat ==
    [borrow_cache |-> [i \in 1..MaxSlots |->
        [supply_multiplier |-> I80F48FromInt(1),
         borrow_multiplier |-> I80F48FromInt(1)]]]
CacheSteep ==
    [borrow_cache |-> [i \in 1..MaxSlots |->
        [supply_multiplier |-> I80F48Frac(16 + i, 4),
         borrow_multiplier |-> I80F48Frac(32 + i, 4)]]]

\* control.open_orders_agg: one OpenOrdersInfo per market slot
SlotKinds == {"empty", "stale", "long", "short"}
OpenOrdersInfo(c, i, kind) ==
    CASE kind = "empty" ->
           [key |-> PubkeyDefault, pos_size |-> 0, native_pc_total |-> 0,
            realized_pnl |-> 0, funding_index |-> 0]
      [] kind = "stale" ->
           [key |-> PubkeyDefault, pos_size |-> -1500000,
            native_pc_total |-> 30000000, realized_pnl |-> -250000,
            funding_index |-> 1000290]
      [] kind = "long" ->
           [key |-> OpenOrdersKey(c, i), pos_size |-> 1500000,
            native_pc_total |-> -30000000, realized_pnl |-> -250000,
            funding_index |-> 1000290]
      [] kind = "short" ->
           [key |-> OpenOrdersKey(c, i), pos_size |-> -1500000,
            native_pc_total |-> 30000000, realized_pnl |-> 120000,
            funding_index |-> 999710]
ControlContents(c, kinds) ==
    {[open_orders_agg |-> [i \in 1..MaxSlots |-> OpenOrdersInfo(c, i, k[i])]] :
        k \in [1..MaxSlots -> kinds]}

\* The market account at a perp market's dex_market address
PcLotSizes == {BFromInt(100), BShl(<<1>>, 43)}
ZoDexMarket(addr, lot) ==
    [own_address |-> addr,
     req_q       |-> Pk("req_q", "", addr[3]),
     event_q     |-> Pk("event_q", "", addr[3]),
     bids        |-> Pk("bids", "", addr[3]),
     asks        |-> Pk("asks", "", addr[3]),
     pc_lot_size |-> lot]

\* What price_to_lots and size_to_lots of zo_abi return for the prices and
\* sizes a caller can send
PriceLots == {BFromInt(20000), BShl(<<1>>, 32)}
BaseLots  == {BFromInt(150), BShl(<<1>>, 32)}

-----------------------------------------------------------------------------
(* src/src/api.rs: requests and responses                                   *)

Handlers == {"collateral_balances", "collateral_deposit", "collateral_withdraw",
             "position", "orders", "orders_post", "orders_delete"}
Mutating == {"collateral_deposit", "collateral_withdraw",
             "orders_post", "orders_delete"}

\* impl From<zo::dex::Side> for Side, and Side's serde names
SideFromJson(str) == IF str = "bid" THEN "Bid" ELSE "Ask"

\* OrderType's serde names, and impl From<OrderType> for zo::OrderType
OrderTypeFromJson(str) ==
    CASE str = "limit"           -> "Limit"
      [] str = "ioc"             -> "ImmediateOrCancel"
      [] str = "postonly"        -> "PostOnly"
      [] str = "reduceonlyioc"   -> "ReduceOnlyIoc"
      [] str = "reduceonlylimit" -> "ReduceOnlyLimit"
      [] str = "fok"             -> "FillOrKill"
OrderTypeInto(x) == [zo_order_type |-> x]

\* u128::from_str_radix(chars, 10) and the u64 of a query value: an optional
\* "+", then one or more decimal digits.  The values of this model are far
\* below the overflow of either type.
Digits == <<"0", "1", "2", "3", "4", "5", "6", "7", "8", "9">>
DigitValue(ch) == IterPosition(Digits, ch) - 1
RECURSIVE DecimalValue(_, _)
DecimalValue(chars, acc) ==
    IF chars = <<>> THEN acc
    ELSE DecimalValue(Tail(chars), 10 * acc + DigitValue(chars[1]))
from_str_radix(chars) ==
    LET ds == IF chars # <<>> /\ chars[1] = "+" THEN Tail(chars) ELSE chars
    IN  IF ds = <<>> \/ \E i \in DOMAIN ds : DigitValue(ds[i]) < 0
        THEN Err(<<"ParseInt", "">>)
        ELSE Ok(DecimalValue(ds, 0))

\* Pubkey::from_str: the base58 strings that decode to 32 bytes
TokenAccountStrings == {"7xKXtg2CW87d97TXJSDpbD5jBkheTqA83TZRuJosgAsU", "not-a-pubkey"}
PubkeyFromStr(str) ==
    IF str = "7xKXtg2CW87d97TXJSDpbD5jBkheTqA83TZRuJosgAsU"
    THEN Ok(Pk("token_account", "caller", 1))
    ELSE Err(<<"ParsePubkey", "">>)

get_associated_token_address(owner, mint) == Pk("ata", owner[1], mint[3])

\* The query string of DELETE /orders/{symbol}: a record of the parameters the
\* caller supplied, by name.  OrdersDeleteQuery carries no serde rename, so
\* its fields are read from the parameters named as the Rust fields are;
\* serde ignores the parameters it does not know.
Param(raw, name) == IF name \in DOMAIN raw THEN Some(raw[name]) ELSE None

\* OrdersDeleteQuery as it would be with the unwrap_or(0) of orders_post on
\* its client_id
OrdersDeleteQueryDefaulting(raw) ==
    LET side == Param(raw, "side")
        cid  == Param(raw, "client_id")
    IN  [order_id  |-> Param(raw, "order_id"),
         side      |-> IF side = None THEN None ELSE Some(SideFromJson(side[1])),
         client_id |-> IF cid = None THEN Some(0)
                       ELSE Some(from_str_radix(cid[1]).val)]

OrdersDeleteQuery(raw) ==
    LET side == Param(raw, "side")
        cid  == Param(raw, "client_id")
    IN  [order_id  |-> Param(raw, "order_id"),
         side      |-> IF side = None THEN None ELSE Some(SideFromJson(side[1])),
         client_id |-> IF cid = None THEN None
                       ELSE Some(from_str_radix(cid[1]).val)]

Pending         == [outcome |-> "pending", status |-> 0, error |-> <<"", "">>, body |-> <<>>]
RespOk(st, b)   == [outcome |-> "ok", status |-> st, error |-> <<"", "">>, body |-> b]
\* impl actix_web::ResponseError for Error {}: every error is a 500
RespErr(e)      == [outcome |-> "err", status |-> 500, error |-> e, body |-> <<>>]
\* a panic of the handler's task: no response is written
RespPanic       == [outcome |-> "panic", status |-> 0, error |-> <<"", "">>, body |-> <<>>]

-----------------------------------------------------------------------------
(* src/src/api.rs: what the handlers compute                                *)

\* BalanceEntry with the two arms of its match exchanged
BalanceEntrySwapped(c, i, margin, cache) ==
    LET collat == margin.collateral[i]
        mult   == IF I80F48NonNegative(collat)
                  THEN cache.borrow_cache[i].borrow_multiplier
                  ELSE cache.borrow_cache[i].supply_multiplier
    IN  <<SymbolToString(c.oracle_symbol),
          small_to_big(I80F48Mul(collat, mult), c.decimals)>>

\* One entry of the map of collateral_balances: collateral c at index i
BalanceEntry(c, i, margin, cache) ==
    LET collat == margin.collateral[i]
        mult   == IF I80F48NonNegative(collat)
                  THEN cache.borrow_cache[i].supply_multiplier
                  ELSE cache.borrow_cache[i].borrow_multiplier
    IN  <<SymbolToString(c.oracle_symbol),
          small_to_big(I80F48Mul(collat, mult), c.decimals)>>

collateral_balances_body(st, cache, margin) ==
    LET cs == zo_collaterals(st)
    IN  Collect([i \in 1..Len(cs) |-> BalanceEntry(cs[i], i, margin, cache)])

Uninitialized ==
    [size |-> F64Zero, value |-> F64Zero, realized_pnl |-> F64Zero,
     funding_index |-> F64FromInt(1), is_long |-> TRUE]

\* PositionInfo telling an unused slot by its size, not by its key
PositionInfoBySize(mkt, oo) ==
    IF oo.pos_size = 0
    THEN [size |-> F64Zero, value |-> F64Zero, realized_pnl |-> F64Zero,
          funding_index |-> F64FromInt(1), is_long |-> TRUE]
    ELSE [size          |-> F64Abs(div_to_float(oo.pos_size, mkt.asset_decimals)),
          value         |-> F64Abs(div_to_float(oo.native_pc_total, 6)),
          realized_pnl  |-> div_to_float(oo.realized_pnl, mkt.asset_decimals),
          funding_index |-> div_to_float(oo.funding_index, 6),
          is_long       |-> oo.pos_size >= 0]

\* One value of the map of position: market mkt and its slot oo
PositionInfo(mkt, oo) ==
    IF oo.key = PubkeyDefault
    THEN Uninitialized
    ELSE [size          |-> F64Abs(div_to_float(oo.pos_size, mkt.asset_decimals)),
          value         |-> F64Abs(div_to_float(oo.native_pc_total, 6)),
          realized_pnl  |-> div_to_float(oo.realized_pnl, mkt.asset_decimals),
          funding_index |-> div_to_float(oo.funding_index, 6),
          is_long       |-> oo.pos_size >= 0]

position_body(st, control) ==
    LET mkts == zo_markets(st)
        n    == Min(Len(mkts), Len(control.open_orders_agg))
    IN  Collect([i \in 1..n |->
                    <<SymbolToString(mkts[i].symbol),
                      PositionInfo(mkts[i], control.open_orders_agg[i])>>])

\* impl From<zo::dex::Order> for Order, over the bids then the asks
orders_body(bids, asks) ==
    [i \in 1..Len(bids) |-> [order_id |-> bids[i], side |-> "bid"]]
    \o [i \in 1..Len(asks) |-> [order_id |-> asks[i], side |-> "ask"]]

UnwrapOr(opt, d) == IF opt = None THEN d ELSE opt[1]

\* The request each mutating handler hands to send(), and whether a u64
\* operation overflowed while its arguments were computed.
DepositRequest(st, query, l) ==
    LET amt == big_to_small(query.amount, l.decimals)
    IN  [overflow |-> amt.overflow,
         tx |-> [ix   |-> "Deposit",
                 args |-> [repay_only |-> query.repay_only, amount |-> amt.value],
                 accounts |->
                    [state |-> ZO_STATE_ID, state_signer |-> ZoStateSigner,
                     cache |-> st.cache, authority |-> Authority,
                     margin |-> ZoMarginKey, token_account |-> l.token_account,
                     vault |-> l.vault, token_program |-> TokenProgramId]]]

\* WithdrawRequest naming a control account known beforehand, not the one of
\* the margin account just read
WithdrawRequestCached(st, query, l) ==
    LET amt == big_to_small(query.amount, l.decimals)
    IN  [overflow |-> amt.overflow,
         tx |-> [ix   |-> "Withdraw",
                 args |-> [allow_borrow |-> query.allow_borrow, amount |-> amt.value],
                 accounts |->
                    [state |-> ZO_STATE_ID, state_signer |-> ZoStateSigner,
                     cache |-> st.cache, authority |-> Authority,
                     margin |-> ZoMarginKey, control |-> Pk("control", "", 1),
                     token_account |-> l.token_account,
                     vault |-> l.vault, token_program |-> TokenProgramId]]]

WithdrawRequest(st, query, l) ==
    LET amt == big_to_small(query.amount, l.decimals)
    IN  [overflow |-> amt.overflow,
         tx |-> [ix   |-> "Withdraw",
                 args |-> [allow_borrow |-> query.allow_borrow, amount |-> amt.value],
                 accounts |->
                    [state |-> ZO_STATE_ID, state_signer |-> ZoStateSigner,
                     cache |-> st.cache, authority |-> Authority,
                     margin |-> ZoMarginKey, control |-> l.margin.control,
                     token_account |-> l.token_account,
                     vault |-> l.vault, token_program |-> TokenProgramId]]]

\* limit_price * max_base_quantity * mkt.pc_lot_size in u64
QuoteQuantity(limit_price, max_base_quantity, pc_lot_size) ==
    LET p1 == BMul(limit_price, max_base_quantity)
        p2 == BMul(U64Wrap(p1), pc_lot_size)
    IN  [value |-> U64Wrap(p2), overflow |-> ~U64Fits(p1) \/ ~U64Fits(p2)]

PlacePerpOrderRequest(st, query, l, limit_price, max_base_quantity) ==
    LET quote == QuoteQuantity(limit_price, max_base_quantity, l.mkt.pc_lot_size)
    IN  [overflow |-> quote.overflow,
         tx |-> [ix   |-> "PlacePerpOrder",
                 args |-> [is_long            |-> SideFromJson(query.side) = "Bid",
                           limit_price        |-> limit_price,
                           max_base_quantity  |-> max_base_quantity,
                           max_quote_quantity |-> quote.value,
                           order_type |-> OrderTypeInto(OrderTypeFromJson(query.order_type)),
                           limit      |-> UnwrapOr(query.limit, 20),
                           client_id  |-> UnwrapOr(query.client_id, 0)],
                 accounts |->
                    [state |-> ZO_STATE_ID, state_signer |-> ZoStateSigner,
                     cache |-> st.cache, authority |-> Authority,
                     margin |-> ZoMarginKey, control |-> l.margin.control,
                     open_orders |-> l.open_orders,
                     dex_market |-> l.mkt.own_address, req_q |-> l.mkt.req_q,
                     event_q |-> l.mkt.event_q, market_bids |-> l.mkt.bids,
                     market_asks |-> l.mkt.asks, dex_program |-> ZO_DEX_PID,
                     rent |-> RentId]]]

CancelPerpOrderRequest(st, raw, l) ==
    LET query == OrdersDeleteQuery(raw)
    IN  [overflow |-> FALSE,
         tx |-> [ix   |-> "CancelPerpOrder",
                 args |-> [order_id  |-> l.order_id,
                           is_long   |-> IF query.side = None THEN None
                                         ELSE Some(query.side[1] = "Bid"),
                           client_id |-> query.client_id],
                 accounts |->
                    [state |-> ZO_STATE_ID, cache |-> st.cache,
                     authority |-> Authority, margin |-> ZoMarginKey,
                     control |-> l.margin.control, open_orders |-> l.open_orders,
                     dex_market |-> l.mkt.own_address, event_q |-> l.mkt.event_q,
                     market_bids |-> l.mkt.bids, market_asks |-> l.mkt.asks,
                     dex_program |-> ZO_DEX_PID]]]

BuildRequest(h, st, query, l, limit_price, max_base_quantity) ==
    CASE h = "collateral_deposit"  -> DepositRequest(st, query, l)
      [] h = "collateral_withdraw" -> WithdrawRequest(st, query, l)
      [] h = "orders_post" ->
            PlacePerpOrderRequest(st, query, l, limit_price, max_base_quantity)
      [] h = "orders_delete"       -> CancelPerpOrderRequest(st, query, l)

\* Json(..) is a 200; orders_post answers Created, orders_delete NoContent
SuccessStatus(h) ==
    CASE h = "orders_post" -> 201 [] h = "orders_delete" -> 204 [] OTHER -> 200

\* The signature send() returns names the transaction it submitted
SigResp(tx) == [sig |-> [signature_of |-> tx]]

-----------------------------------------------------------------------------
(* The requests a caller can send                                           *)

\* {symbol}: a symbol of the first slots' names, or one no snapshot holds
PathSymbols(h) ==
    CASE h \in {"collateral_deposit", "collateral_withdraw"} ->
            {OracleNames[1], OracleNames[2], "DOGE"}
      [] h \in {"orders", "orders_post", "orders_delete"} ->
            {MarketNames[1], MarketNames[2], "DOGE-PERP"}
      [] OTHER -> {""}

\* The f64 a JSON number n / 10^p is parsed to
F64Decimal(n, p) == F64Div(F64FromInt(n), F64FromInt(Pow(10, p)))
Amounts == {F64Decimal(15, 1), F64Decimal(29, 2), F64Round(FALSE, <<1>>, 60, FALSE)}

TokenAccounts == {None} \cup {Some(str) : str \in TokenAccountStrings}

OrderTypeNames == {"limit", "ioc", "postonly", "reduceonlyioc", "reduceonlylimit", "fok"}

\* The parameter names of DELETE /orders/{symbol}: the interface's, and the
\* Rust field names
CamelNames == {"orderId", "side", "clientId"}
SnakeNames == {"order_id", "side", "client_id"}
OrderIdStrings == {<<"4", "2">>, <<"4", "x">>}
DeleteQueries ==
    {[n \in names |->
        CASE n \in {"orderId", "order_id"} -> oid
          [] n = "side"                    -> side
          [] OTHER                         -> <<"7">>] :
        names \in (SUBSET CamelNames) \cup (SUBSET SnakeNames),
        oid \in OrderIdStrings, side \in {"bid", "ask"}}

\* Bodies of POST /orders/{symbol}: every side and every presence of the two
\* optional fields for a limit order, and one body per other order type
PlaceQueries ==
    [side : {"bid", "ask"}, order_type : {"limit"},
     client_id : {None, Some(7)}, limit : {None, Some(5)}]
    \cup [side : {"ask"}, order_type : OrderTypeNames,
          client_id : {Some(7)}, limit : {None}]

Queries(h) ==
    CASE h = "collateral_deposit" ->
            [repay_only : BOOLEAN, amount : Amounts, token_account : TokenAccounts]
      [] h = "collateral_withdraw" ->
            [allow_borrow : BOOLEAN, amount : Amounts, token_account : TokenAccounts]
      [] h = "orders_post" -> PlaceQueries
      [] h = "orders_delete" -> DeleteQueries
      [] OTHER -> {<<>>}

FirstStep(h) ==
    CASE h = "collateral_balances" -> "join"
      [] h \in {"collateral_deposit", "collateral_withdraw"} -> "resolve"
      [] h = "position"      -> "ta_margin"
      [] h = "orders_delete" -> "order_id"
      [] OTHER               -> "dex_market"

Loc0 == [x \in {} |-> 0]

-----------------------------------------------------------------------------
(* The state machine: one request in flight, served step by step (a step    *)
(* ends at an await), while the ledger changes underneath it.               *)

Init ==
    /\ zo_state \in {Snapshot(l) : l \in SymbolLists}
    /\ ledger \in [control : Controls]
    /\ pc = "idle" /\ handler = "none" /\ s = "" /\ q = <<>>
    /\ loc = Loc0 /\ sent = <<>> /\ resp = Pending
    /\ call = [fn |-> "none"]

\* A request arrives and actix-web hands it to its handler.
Start(H) ==
    /\ pc = "idle"
    /\ \E h \in H : \E sym \in PathSymbols(h) : \E body \in Queries(h) :
          /\ handler' = h /\ s' = sym /\ q' = body
          /\ pc' = FirstStep(h)
    /\ loc' = Loc0 /\ sent' = <<>> /\ resp' = Pending
    /\ UNCHANGED <<zo_state, ledger, call>>

\* The response is written (or the panicked task is dropped): the request is
\* over, and nothing of it is kept.
Reply ==
    /\ pc = "done"
    /\ pc' = "idle" /\ handler' = "none" /\ s' = "" /\ q' = <<>>
    /\ loc' = Loc0 /\ sent' = <<>> /\ resp' = Pending
    /\ UNCHANGED <<zo_state, ledger, call>>

\* The remote program rewrites the margin account.
LedgerUpdate ==
    /\ \E c \in Controls \ {ledger.control} : ledger' = [ledger EXCEPT !.control = c]
    /\ UNCHANGED <<zo_state, pc, handler, s, q, loc, sent, resp, call>>

\* The handler returns r (or panics) without going further.
Finish(r) ==
    /\ resp' = r /\ pc' = "done"
    /\ UNCHANGED <<zo_state, ledger, handler, s, q, loc, sent, call>>

\* The handler goes on to step next with its locals updated.
Continue(next, l) ==
    /\ pc' = next /\ loc' = l
    /\ UNCHANGED <<zo_state, ledger, handler, s, q, sent, resp, call>>

Set(l, name, v) == [k \in DOMAIN l \cup {name} |-> IF k = name THEN v ELSE l[k]]

\* collateral_balances: try_join!(zo_cache, zo_margin), then the map
CollateralBalances ==
    /\ pc = "join"
    /\ \E cache_ok, margin_ok \in BOOLEAN, cache \in {CacheFlat, CacheSteep}, col \in [1..MaxSlots -> Balances] :
          IF cache_ok /\ margin_ok
          THEN LET margin == [control |-> ledger.control, collateral |-> col]
               IN  /\ loc' = Set(Set(loc, "cache", cache), "margin", margin)
                   /\ resp' = RespOk(200, collateral_balances_body(zo_state, cache, margin))
                   /\ pc' = "done"
                   /\ UNCHANGED <<zo_state, ledger, handler, s, q, sent, call>>
          ELSE Finish(RespErr(<<"AnchorClient", "">>))

\* collateral_deposit, collateral_withdraw: collateral, vault, token account
ResolveCollateral ==
    /\ pc = "resolve"
    /\ LET c  == collateral(zo_state, s)
           v  == vault(zo_state, s)
           ta == IF q.token_account = None
                 THEN Ok(get_associated_token_address(Authority, c.val.mint))
                 ELSE PubkeyFromStr(q.token_account[1])
       IN  IF ~c.ok THEN Finish(RespErr(c.err))
           ELSE IF ~v.ok THEN Finish(RespErr(v.err))
           ELSE IF ~ta.ok THEN Finish(RespErr(ta.err))
           ELSE Continue(IF handler = "collateral_deposit" THEN "send" ELSE "zo_margin",
                         Set(Set(Set(loc, "decimals", c.val.decimals),
                                 "vault", v.val), "token_account", ta.val))

\* st.zo_margin().await? of collateral_withdraw, orders_post, orders_delete
\* (of the Margin read these handlers use the control field only)
ZoMargin ==
    /\ pc = "zo_margin"
    /\ \E ok \in BOOLEAN :
          IF ok
          THEN Continue(IF handler = "collateral_withdraw" THEN "send" ELSE "ta_margin",
                        Set(loc, "margin", [control |-> ledger.control]))
          ELSE Finish(RespErr(<<"AnchorClient", "">>))

\* State::trader_accounts, first await: the margin account
TraderAccountsMargin ==
    /\ pc = "ta_margin"
    /\ \E ok \in BOOLEAN :
          IF ok
          THEN Continue("ta_control", Set(loc, "m", [control |-> ledger.control]))
          ELSE Finish(RespErr(<<"AnchorClient", "">>))

\* State::trader_accounts, second await: the control account m.control; then
\* the map of position, or the find_map of State::oo (which reads the keys
\* of the slots only: their other fields are drawn for position alone)
TraderAccountsControl ==
    /\ pc = "ta_control"
    /\ \E ok \in BOOLEAN,
          control \in ControlContents(loc.m.control,
                                      IF handler = "position" THEN SlotKinds
                                      ELSE {"empty", "long"}) :
          IF ~ok THEN Finish(RespErr(<<"AnchorClient", "">>))
          ELSE IF handler = "position"
          THEN /\ loc' = Set(loc, "control", control)
               /\ resp' = RespOk(200, position_body(zo_state, control))
               /\ pc' = "done"
               /\ UNCHANGED <<zo_state, ledger, handler, s, q, sent, call>>
          ELSE LET r == oo_find(zo_state, control, s)
               IN  IF r.ok THEN Continue("send", Set(loc, "open_orders", r.val))
                   ELSE Finish(RespErr(r.err))

\* State::dex_market: resolve the symbol, fetch the market account, decode it
DexMarket ==
    /\ pc = "dex_market"
    /\ LET m == market(zo_state, s)
       IN  IF ~m.ok THEN Finish(RespErr(m.err))
           ELSE \E fetched, well_formed \in BOOLEAN, lot \in PcLotSizes :
                   IF ~fetched THEN Finish(RespErr(<<"SolanaClient", "">>))
                   ELSE IF ~well_formed THEN Finish(RespPanic)
                   ELSE Continue(IF handler = "orders" THEN "slabs" ELSE "zo_margin",
                                 Set(loc, "mkt", ZoDexMarket(m.val.dex_market, lot)))

\* orders: try_join!(slab(bids), slab(asks)), then the list.  The first of
\* the two reads to fail decides the outcome.
Slabs ==
    /\ pc = "slabs"
    /\ \E b, a \in {"decoded", "fetch_failed", "malformed"},
          bids, asks \in {<<>>, <<17>>}, first \in {"bids", "asks"} :
          LET bad == IF b # "decoded" /\ (first = "bids" \/ a = "decoded") THEN b
                     ELSE IF a # "decoded" THEN a
                     ELSE b
          IN  IF bad = "fetch_failed" THEN Finish(RespErr(<<"SolanaClient", "">>))
              ELSE IF bad = "malformed" THEN Finish(RespPanic)
              ELSE Finish(RespOk(200, orders_body(bids, asks)))

\* orders_delete: the order id, before anything is read
ParseOrderId ==
    /\ pc = "order_id"
    /\ LET query == OrdersDeleteQuery(q)
           r     == IF query.order_id = None THEN Ok(None)
                    ELSE from_str_radix(query.order_id[1])
       IN  IF ~r.ok THEN Finish(RespErr(r.err))
           ELSE Continue("dex_market",
                         Set(loc, "order_id",
                             IF query.order_id = None THEN None ELSE Some(r.val)))

\* Send submitting a second time when the first submission fails
SendRetrying ==
    /\ pc = "send"
    /\ \E limit_price \in (IF handler = "orders_post" THEN PriceLots ELSE {<<>>}),
          max_base_quantity \in (IF handler = "orders_post" THEN BaseLots ELSE {<<>>}) :
          LET r == BuildRequest(handler, zo_state, q, loc, limit_price, max_base_quantity)
          IN  \E overflow_checks \in (IF r.overflow THEN BOOLEAN ELSE {FALSE}),
                 accepted, again \in BOOLEAN :
                 IF overflow_checks
                 THEN Finish(RespPanic)
                 ELSE /\ sent' = IF accepted
                                 THEN Append(sent, [tx |-> r.tx, accepted |-> TRUE])
                                 ELSE sent \o <<[tx |-> r.tx, accepted |-> FALSE],
                                                [tx |-> r.tx, accepted |-> again]>>
                      /\ resp' = IF accepted \/ again
                                 THEN RespOk(SuccessStatus(handler), SigResp(r.tx))
                                 ELSE RespErr(<<"AnchorClient", "">>)
                      /\ pc' = "done"
                      /\ UNCHANGED <<zo_state, ledger, handler, s, q, loc, call>>

\* The spawn_blocking closure of the four mutating handlers: compute the
\* instruction, then send().  A u64 overflow panics when the build checks
\* overflow and wraps when it does not.
Send ==
    /\ pc = "send"
    /\ \E limit_price \in (IF handler = "orders_post" THEN PriceLots ELSE {<<>>}),
          max_base_quantity \in (IF handler = "orders_post" THEN BaseLots ELSE {<<>>}) :
          LET r == BuildRequest(handler, zo_state, q, loc, limit_price, max_base_quantity)
          IN  \E overflow_checks \in (IF r.overflow THEN BOOLEAN ELSE {FALSE}),
                 accepted \in BOOLEAN :
                 IF overflow_checks
                 THEN Finish(RespPanic)
                 ELSE /\ sent' = Append(sent, [tx |-> r.tx, accepted |-> accepted])
                      /\ resp' = IF accepted
                                 THEN RespOk(SuccessStatus(handler), SigResp(r.tx))
                                 ELSE RespErr(<<"AnchorClient", "">>)
                      /\ pc' = "done"
                      /\ UNCHANGED <<zo_state, ledger, handler, s, q, loc, call>>

Steps ==
    \/ CollateralBalances
    \/ ResolveCollateral
    \/ ZoMargin
    \/ TraderAccountsMargin
    \/ TraderAccountsControl
    \/ DexMarket
    \/ Slabs
    \/ ParseOrderId
    \/ Send

Next == Start(Handlers) \/ Reply \/ LedgerUpdate \/ Steps

Spec == Init /\ [][Next]_vars

\* The same machine serving one kind of request only
NextBalances == Start({"collateral_balances"}) \/ Reply \/ LedgerUpdate \/ CollateralBalances
SpecBalances == Init /\ [][NextBalances]_vars

NextPosition ==
    \/ Start({"position"}) \/ Reply \/ LedgerUpdate
    \/ TraderAccountsMargin \/ TraderAccountsControl
SpecPosition == Init /\ [][NextPosition]_vars

NextOrders == Start({"orders"}) \/ Reply \/ LedgerUpdate \/ DexMarket \/ Slabs
SpecOrders == Init /\ [][NextOrders]_vars

NextWithdraw ==
    \/ Start({"collateral_withdraw"}) \/ Reply \/ LedgerUpdate
    \/ ResolveCollateral \/ ZoMargin \/ Send
SpecWithdraw == Init /\ [][NextWithdraw]_vars

NextPlace ==
    \/ Start({"orders_post"}) \/ Reply \/ LedgerUpdate
    \/ DexMarket \/ ZoMargin \/ TraderAccountsMargin \/ TraderAccountsControl \/ Send
SpecPlace == Init /\ [][NextPlace]_vars

NextCancel ==
    \/ Start({"orders_delete"}) \/ Reply \/ LedgerUpdate
    \/ ParseOrderId \/ DexMarket \/ ZoMargin \/ TraderAccountsMargin
    \/ TraderAccountsControl \/ Send
SpecCancel == Init /\ [][NextCancel]_vars

NextMutating ==
    \/ Start(Mutating) \/ Reply \/ LedgerUpdate
    \/ ResolveCollateral \/ ParseOrderId \/ DexMarket \/ ZoMargin
    \/ TraderAccountsMargin \/ TraderAccountsControl \/ Send
SpecMutating == Init /\ [][NextMutating]_vars

-----------------------------------------------------------------------------
(* The two conversions of src/src/api.rs called one after the other on a    *)
(* ledger integer n of a token with p decimals.                             *)

MaxN == 130
MaxP == 3

Idle ==
    /\ ledger \in [control : Controls]
    /\ pc = "idle" /\ handler = "none" /\ s = "" /\ q = <<>>
    /\ loc = Loc0 /\ sent = <<>> /\ resp = Pending

ConvInit ==
    /\ zo_state = Snapshot([i \in 1..MaxSlots |-> NilSymbol])
    /\ Idle
    /\ call \in {[fn |-> "convert", stage |-> "in", n |-> n, p |-> p,
                  x |-> F64Zero, out |-> <<>>] : n \in 0..MaxN, p \in 0..MaxP}

ConvToFloat ==
    /\ call.stage = "in"
    /\ call' = [call EXCEPT !.stage = "float", !.x = div_to_float(call.n, call.p)]
    /\ UNCHANGED <<zo_state, ledger, pc, handler, s, q, loc, sent, resp>>

ConvToLedger ==
    /\ call.stage = "float"
    /\ call' = [call EXCEPT !.stage = "out", !.out = big_to_small(call.x, call.p).value]
    /\ UNCHANGED <<zo_state, ledger, pc, handler, s, q, loc, sent, resp>>

ConvNext == ConvToFloat \/ ConvToLedger

SpecConv == ConvInit /\ [][ConvNext]_vars

-----------------------------------------------------------------------------
(* State::market, State::collateral and State::vault of src/src/state.rs    *)
(* called on a snapshot with any string, the empty one included.            *)

LookupFns == {"market", "collateral", "vault"}

LookupStrings ==
    {"", "DOGE"} \cup {MarketNames[i] : i \in 1..MaxSlots}
                 \cup {OracleNames[i] : i \in 1..MaxSlots}

LookupResult(fn, st, str) ==
    CASE fn = "market"     -> market(st, str)
      [] fn = "collateral" -> collateral(st, str)
      [] fn = "vault"      -> vault(st, str)

LookupInit ==
    /\ zo_state \in {Snapshot(l) : l \in SymbolLists}
    /\ Idle
    /\ call = [fn |-> "none"]

\* A first call of one of the three functions
Lookup ==
    /\ \E fn \in LookupFns, str \in LookupStrings :
          call' = [fn |-> fn, arg |-> str,
                   result |-> LookupResult(fn, zo_state, str), again |-> None]
    /\ UNCHANGED <<zo_state, ledger, pc, handler, s, q, loc, sent, resp>>

\* The same call once more
LookupAgain ==
    /\ call.fn \in LookupFns
    /\ call.again = None
    /\ call' = [call EXCEPT !.again = Some(LookupResult(call.fn, zo_state, call.arg))]
    /\ UNCHANGED <<zo_state, ledger, pc, handler, s, q, loc, sent, resp>>

LookupNext == Lookup \/ LookupAgain

SpecLookup == LookupInit /\ [][LookupNext]_vars

-----------------------------------------------------------------------------
(* Properties of DELETE /orders/{symbol}, under SpecCancel                  *)

CancelArgs == {sent[i].tx.args : i \in {j \in DOMAIN sent : sent[j].tx.ix = "CancelPerpOrder"}}

Supplied(names) == names \cap DOMAIN q # {}

\* C1: a filter of the submitted CancelPerpOrder instruction is absent
\* whenever the caller supplied no parameter for it, under the interface's
\* name or the field's: no default takes the place of a missing filter, and
\* a request without filters submits an instruction without filters.
CancelFabricatesNoFilter ==
    \A args \in CancelArgs :
        /\ ~Supplied({"orderId", "order_id"}) => args.order_id = None
        /\ ~Supplied({"side"}) => args.is_long = None
        /\ ~Supplied({"clientId", "client_id"}) => args.client_id = None

\* A request without any parameter was submitted, and accepted
CancelWithoutFiltersSubmitted ==
    /\ handler = "orders_delete" /\ DOMAIN q = {}
    /\ Len(sent) = 1 /\ sent[1].accepted
    /\ sent[1].tx.args = [order_id |-> None, is_long |-> None, client_id |-> None]

\* C2: the submitted CancelPerpOrder instruction carries the value of every
\* parameter the caller supplied under the names of the interface table
\* (orderId, side, clientId): order_id is the decimal value of orderId,
\* is_long says whether side is "bid", client_id is clientId.
CancelCarriesSuppliedFilters ==
    \A args \in CancelArgs :
        /\ "orderId" \in DOMAIN q =>
              args.order_id = Some(from_str_radix(q["orderId"]).val)
        /\ "side" \in DOMAIN q => args.is_long = Some(q["side"] = "bid")
        /\ "clientId" \in DOMAIN q =>
              args.client_id = Some(from_str_radix(q["clientId"]).val)

-----------------------------------------------------------------------------
(* Properties of POST /orders/{symbol}, under SpecPlace                     *)

\* C3: the quote quantity of place-order is limit_price * max_base_quantity
\* * pc_lot_size; when this product does not fit the u64 field the request
\* ends in an error response and nothing is submitted: no submitted
\* PlacePerpOrder carries the product reduced modulo 2^64, and the request
\* does not panic where the instruction is computed.
PlaceQuoteOverflowRejected ==
    /\ \A i \in DOMAIN sent :
          sent[i].tx.ix = "PlacePerpOrder" =>
             LET args    == sent[i].tx.args
                 product == BMul(BMul(args.limit_price, args.max_base_quantity),
                                 loc.mkt.pc_lot_size)
             IN  /\ U64Fits(product)
                 /\ args.max_quote_quantity = product
    /\ ~(handler = "orders_post" /\ resp.outcome = "panic"
         /\ "open_orders" \in DOMAIN loc)

-----------------------------------------------------------------------------
(* Properties of GET /orders/{symbol}, under SpecOrders                     *)

\* C4: when the bytes fetched for the market account or for a slab of the
\* order book are malformed, the request ends in an error response: the
\* task serving it never panics.
MalformedAccountIsAnError ==
    handler = "orders" /\ pc = "done" => resp.outcome \in {"ok", "err"}

-----------------------------------------------------------------------------
(* Properties of symbol resolution, under SpecLookup                        *)

\* The names of the entries before the first nil entry of the list that the
\* function fn searches
ActiveNames(fn) ==
    LET syms == IF fn = "market"
                THEN [i \in DOMAIN zo_state.perp_markets |->
                         zo_state.perp_markets[i].symbol]
                ELSE [i \in DOMAIN zo_state.collaterals |->
                         zo_state.collaterals[i].oracle_symbol]
    IN  [i \in 1..ActiveLen(syms) |-> SymbolToString(syms[i])]

Descriptors(fn) ==
    CASE fn = "market"     -> zo_state.perp_markets
      [] fn = "collateral" -> zo_state.collaterals
      [] fn = "vault"      -> zo_state.vaults

\* C5: State::market, State::collateral and State::vault search the
\* entries before the first nil entry only.  A string that names none of
\* them, the empty string and the name of an entry after the first nil
\* entry included, yields MarketSymbolNotFound (markets) or
\* CollateralSymbolNotFound (collaterals); a string that names one yields
\* the first entry of that name, and yields it again when called again.
LookupSearchesActivePrefix ==
    call.fn \in LookupFns =>
       LET names == ActiveNames(call.fn)
           hits  == {i \in DOMAIN names : names[i] = call.arg}
       IN  IF hits = {}
           THEN /\ ~call.result.ok
                /\ call.result.err =
                      <<IF call.fn = "market" THEN "MarketSymbolNotFound"
                        ELSE "CollateralSymbolNotFound", call.arg>>
           ELSE /\ call.result.ok
                /\ call.result.val =
                      Descriptors(call.fn)[CHOOSE i \in hits : \A j \in hits : i <= j]
                /\ call.again # None => call.again[1] = call.result

-----------------------------------------------------------------------------
(* Properties of GET /position, under SpecPosition                          *)

\* C6: in the position response, every market before the first nil entry
\* whose slot of the control account holds the all-zero address maps to
\* size 0, value 0, realized_pnl 0, funding_index 1, is_long true, whatever
\* the other fields of the slot hold.
ZeroAddressSlotIsUninitialized ==
    handler = "position" /\ resp.outcome = "ok" =>
       \A i \in 1..ActiveLen([k \in DOMAIN zo_state.perp_markets |->
                                 zo_state.perp_markets[k].symbol]) :
          loc.control.open_orders_agg[i].key = PubkeyDefault =>
             resp.body[SymbolToString(zo_state.perp_markets[i].symbol)] =
                [size |-> F64Zero, value |-> F64Zero, realized_pnl |-> F64Zero,
                 funding_index |-> F64FromInt(1), is_long |-> TRUE]

\* A response over two markets: the slot of the first holds the all-zero
\* address and non-zero amounts, the slot of the second is a short position
StaleSlotAnswered ==
    /\ handler = "position" /\ resp.outcome = "ok"
    /\ zo_state.perp_markets[1].symbol # NilSymbol
    /\ zo_state.perp_markets[2].symbol # NilSymbol
    /\ loc.control.open_orders_agg[1].key = PubkeyDefault
    /\ loc.control.open_orders_agg[1].pos_size # 0
    /\ loc.control.open_orders_agg[2].key # PubkeyDefault
    /\ resp.body[MarketNames[1]].size = F64Zero
    /\ resp.body[MarketNames[1]].is_long
    /\ ~resp.body[MarketNames[2]].is_long
    /\ resp.body[MarketNames[2]].size # F64Zero

-----------------------------------------------------------------------------
(* Properties of GET /collateral/balances, under SpecBalances               *)

\* C7: in the balances response, the value of every collateral i before the
\* first nil entry is margin.collateral[i] times the supply multiplier of
\* borrow_cache[i] when the balance is >= 0 (0 included) and times the
\* borrow multiplier of borrow_cache[i] when it is < 0, divided by 10 to
\* the decimals of collateral i.
BalanceUsesMultiplierOfItsSign ==
    handler = "collateral_balances" /\ resp.outcome = "ok" =>
       \A i \in 1..ActiveLen([k \in DOMAIN zo_state.collaterals |->
                                 zo_state.collaterals[k].oracle_symbol]) :
          LET c       == zo_state.collaterals[i]
              balance == loc.margin.collateral[i]
              entry   == loc.cache.borrow_cache[i]
              scaled  == IF balance.neg
                         THEN I80F48Mul(balance, entry.borrow_multiplier)
                         ELSE I80F48Mul(balance, entry.supply_multiplier)
          IN  resp.body[SymbolToString(c.oracle_symbol)] =
                 small_to_big(scaled, c.decimals)

\* A response over three collaterals with unequal multipliers: a deposit of
\* 1 USDC at index 1 (times 17/16: 1.0625), a balance of 0 at index 2, a
\* debt of 500000 at index 3 (times 35/16, of a token with 9 decimals:
\* -0.00109375 cut to 48 binary places)
MixedBalancesAnswered ==
    /\ handler = "collateral_balances" /\ resp.outcome = "ok"
    /\ loc.cache = CacheSteep
    /\ \A i \in 1..3 : zo_state.collaterals[i].oracle_symbol # NilSymbol
    /\ loc.margin.collateral[1] = I80F48FromInt(1000000)
    /\ loc.margin.collateral[2] = I80F48Zero
    /\ loc.margin.collateral[3] = I80F48FromInt(-500000)
    /\ resp.body[OracleNames[1]] = F64Decimal(10625, 4)
    /\ resp.body[OracleNames[2]] = F64Zero
    /\ resp.body[OracleNames[3]] =
          F64Round(TRUE, BDivPow10(BShl(BFromInt(1093750), 48), 9), -48, FALSE)

-----------------------------------------------------------------------------
(* Properties of the two conversions, under SpecConv                        *)

\* C8: for every integer n >= 0 and every digit count p,
\* big_to_small(div_to_float(n, p), p) = n.
ConversionRoundTrip ==
    call.fn = "convert" /\ call.stage = "out" => call.out = BFromInt(call.n)

-----------------------------------------------------------------------------
(* Properties of POST /collateral/withdraw/{symbol}, under SpecWithdraw     *)

\* C9: a Withdraw transaction is submitted only after the margin account
\* was read, its control account is the control field of that read, and no
\* Withdraw transaction is submitted when the read failed.
WithdrawNamesControlOfMarginRead ==
    \A i \in DOMAIN sent :
       sent[i].tx.ix = "Withdraw" =>
          /\ "margin" \in DOMAIN loc
          /\ sent[i].tx.accounts.control = loc.margin.control

\* A withdrawal was submitted and accepted with the control account that
\* was read, after which the margin account names another one
WithdrawSubmittedAfterRead ==
    /\ handler = "collateral_withdraw" /\ pc = "done"
    /\ Len(sent) = 1 /\ sent[1].accepted
    /\ sent[1].tx.accounts.control = loc.margin.control
    /\ ledger.control # loc.margin.control

-----------------------------------------------------------------------------
(* Properties of the four mutating requests, under SpecMutating             *)

\* What a handler holds once every step before its submission succeeded
LocalsBeforeSend(h) ==
    CASE h = "collateral_deposit"  -> {"decimals", "vault", "token_account"}
      [] h = "collateral_withdraw" -> {"decimals", "vault", "token_account", "margin"}
      [] h = "orders_post"         -> {"mkt", "margin", "m", "open_orders"}
      [] h = "orders_delete"       -> {"order_id", "mkt", "margin", "m", "open_orders"}
      [] OTHER                     -> {}

\* C10: a deposit, withdraw, place-order or cancel-order request submits at
\* most one transaction, and only when every step before the submission
\* succeeded (symbol resolution, token-account parsing, order-id parsing,
\* the market, margin and open-orders reads); its response carries a
\* signature exactly when the submission was accepted, and then the
\* signature of the submitted transaction; a refused submission is answered
\* with an error.
AtMostOneSubmissionAnsweredTruly ==
    /\ Len(sent) <= 1
    /\ sent # <<>> => /\ handler \in Mutating /\ pc = "done"
                      /\ LocalsBeforeSend(handler) \subseteq DOMAIN loc
                      /\ IF sent[1].accepted
                         THEN resp = RespOk(SuccessStatus(handler), SigResp(sent[1].tx))
                         ELSE resp.outcome = "err" /\ resp.status = 500
    /\ resp.outcome = "ok" => sent # <<>> /\ sent[1].accepted
    /\ pc = "done" /\ ~(LocalsBeforeSend(handler) \subseteq DOMAIN loc) =>
          sent = <<>> /\ resp.outcome # "ok"

\* A refused submission answered with an error
RefusedSubmissionAnswered ==
    /\ handler \in Mutating /\ pc = "done"
    /\ Len(sent) = 1 /\ ~sent[1].accepted
    /\ resp.outcome = "err"

-----------------------------------------------------------------------------
(* Properties of POST and DELETE /orders/{symbol}, under SpecMutating       *)

OrderWrites == {"orders_post", "orders_delete"}

\* The requested symbol names a market: an entry before the first nil entry
IsMarket == \E i \in DOMAIN ActiveNames("market") : ActiveNames("market")[i] = s

\* C11: a place-order or cancel-order request on a symbol that is not a
\* market fails with MarketSymbolNotFound(symbol); on a market whose
\* open-orders account cannot be found in the control account that was read
\* it fails with OpenOrdersNotFound(symbol); neither submits a transaction,
\* and neither error is reported for the other condition.
OrderErrorsTellMarketFromOpenOrders ==
    handler \in OrderWrites /\ pc = "done" =>
       /\ resp.error[1] = "MarketSymbolNotFound" =>
             ~IsMarket /\ resp.error[2] = s /\ sent = <<>>
       /\ resp.error[1] = "OpenOrdersNotFound" =>
             IsMarket /\ resp.error[2] = s /\ sent = <<>>
       /\ ~IsMarket /\ (handler = "orders_delete" => "order_id" \in DOMAIN loc) =>
             resp = RespErr(<<"MarketSymbolNotFound", s>>)
       /\ IsMarket /\ "m" \in DOMAIN loc /\ "open_orders" \notin DOMAIN loc =>
             /\ sent = <<>>
             /\ \/ resp = RespErr(<<"OpenOrdersNotFound", s>>)
                \/ resp = RespErr(<<"AnchorClient", "">>)

\* C12: in a submitted PlacePerpOrder or CancelPerpOrder the open_orders
\* account is the requested market's slot of the control account that the
\* transaction names as control, however the request's reads interleave
\* with updates of the ledger.
OrderAccountsOfOneControl ==
    \A i \in DOMAIN sent :
       sent[i].tx.ix \in {"PlacePerpOrder", "CancelPerpOrder"} =>
          \E k \in DOMAIN ActiveNames("market") :
             /\ ActiveNames("market")[k] = s
             /\ sent[i].tx.accounts.open_orders =
                   OpenOrdersKey(sent[i].tx.accounts.control, k)

====
